---- MODULE Spec2Model ----
(***************************************************************************)
(* Model of src/App.js: a React component that runs a side-scrolling game. *)
(*                                                                         *)
(* Numbers.  The source computes in floating point.  The model computes in *)
(* fixed point: a length or a velocity v of the source is the integer      *)
(* v * Scale.  Time is counted in ticks of 16.6667 ms (the divisor of      *)
(* lines 176, 177 and 197), so that dt / 16.6667 is the integer number of  *)
(* ticks between two frames.  Math.random() is r / RandDen for an r drawn  *)
(* from a small set.                                                       *)
(*                                                                         *)
(* Closures.  App() runs again on every render, and startGame, stopGame    *)
(* and loop are created anew by each run; each closes over the values of   *)
(* running, score and best of the render that created it.  A callback      *)
(* handed to requestAnimationFrame therefore carries the values its        *)
(* render had: the model keeps them in the pending callback's record.      *)
(* setScore(s => s + 1) is a functional update and acts on the current     *)
(* value.  A render is taken to follow each handler at once, so a handler  *)
(* invoked by the user is the one of the current state.                    *)
(*                                                                         *)
(* Environment.  onStartClick and onRestartClick (lines 271-272) are       *)
(* defined by every render and are modelled as callable in every state of  *)
(* the mounted component; the overlay of lines 348-360 that shows their    *)
(* buttons is not modelled.                                                *)
(***************************************************************************)
EXTENDS Integers, Sequences, FiniteSets

\* ------------------------------------------------------------- numbers
Scale == 100 * 100                  \* fixed-point unit: 1 px = Scale
RandDen == 10 * 100                 \* Math.random() = r / RandDen, 0 <= r < RandDen
NULL == 0 - 1                       \* JavaScript null in a ref that else holds a number > 0

GAME_WIDTH == 700 * Scale
GAME_HEIGHT == 500 * Scale
PLAYER_SIZE == 34 * Scale
GRAVITY == (9 * Scale) \div 10      \* 0.9
JUMP_VELOCITY == (0 - 14) * Scale
HORIZ_SPEED == 6 * Scale
OBSTACLE_WIDTH == 70 * Scale
GAP_MIN == 120                      \* px; drawn as an integer, scaled on use
GAP_MAX == 180
OBSTACLE_INTERVAL == 1600 * Scale   \* ms, in 1/Scale ms
OBSTACLE_SPEED == (32 * Scale) \div 10   \* 3.2
SPEED_JITTER == (4 * Scale) \div 10      \* the 0.4 of line 152
FRAME_MS == 166667                  \* 16.6667 ms, in 1/Scale ms
JUMP_LIFT == 2 * Scale              \* the "y -= 2" of line 100
MAX_OBSTACLES == 10                 \* the cap of line 157
EDGE_PAD == 40                      \* the 40 of line 146
SPAWN_MARGIN == 20 * Scale          \* the "+ 20" of line 148
OFFSCREEN == (0 - 50) * Scale       \* the -50 of line 205
MAX_GRAVITY_STEP == 2               \* the 2 of line 176
BEST_KEY == "sudoku_game_best"      \* the key read at line 33
STOP_KEY == "react_jump_best"       \* the key of line 82

\* ------------------------------------------------------------- bounds
MaxEffort == 14         \* what the environment spends in one run: see Effort
DtSet == {1, 160, 200}  \* ticks between two frames
Draws == {<<0, 0, 0>>, <<999, 999, 999>>}
                        \* the three draws of Math.random() of one spawn, in 1/RandDen
StoredSet == {NULL, 1}  \* what localStorage holds under BEST_KEY at startup
Codes == {"ArrowLeft", "ArrowRight", "Space", "ArrowUp", "Enter"}
\* The environment's bound: a call of requestAnimationFrame costs 2 and a
\* keydown event 3, so that a long game is played with few keys and a short
\* one with more
Effort(h, k) == 2 * h + 3 * k

\* running, gameOver, score, best: the component's React state
\* player, obstacles, keys, lastSpawn, lastTime, animationRef: its refs
\* pending: the callbacks requestAnimationFrame holds, each with the values
\*          its loop closes over; handles: the handles issued so far
\* now: the clock, in ticks; mounted; storage: localStorage
\* keydowns: the keydown events delivered so far
\* last: the operation that led to this state (op), the session state it
\*       ran in (from), how many starts ran in a row (streak, capped at 2)
\*       and how often it called setScore(s => s + 1) (gain)
VARIABLES running, gameOver, score, best, player, obstacles, keys,
          lastSpawn, lastTime, animationRef, pending, handles, now,
          mounted, storage, keydowns, last

vars == <<running, gameOver, score, best, player, obstacles, keys,
          lastSpawn, lastTime, animationRef, pending, handles, now,
          mounted, storage, keydowns, last>>

\* ------------------------------------------------------------- helpers
Max(a, b) == IF a >= b THEN a ELSE b
Min(a, b) == IF a <= b THEN a ELSE b

\* randomBetween with "b - a + 2" for the "b - a + 1" of line 26
randomBetweenWide(a, b, r) == ((r * (b - a + 2)) \div RandDen) + a

\* randomBetween(a, b) with Math.random() = r / RandDen
randomBetween(a, b, r) == ((r * (b - a + 1)) \div RandDen) + a

\* parseInt(localStorage.getItem(key) || "0", 10); the store holds NULL
\* (no item) or the decimal text of a non-negative integer
initialBest(stored) == IF stored = NULL THEN 0 ELSE stored

initialPlayer == [x |-> GAME_WIDTH \div 4, y |-> GAME_HEIGHT \div 2, vy |-> 0]

\* rectIntersect with "<=" and ">=" for the "<" and ">" of lines 236-239
rectIntersectOpen(p, r) ==
    ~ (  p.x + PLAYER_SIZE <= r.x
      \/ p.x >= r.x + r.w
      \/ p.y + PLAYER_SIZE <= r.y
      \/ p.y >= r.y + r.h )

rectIntersect(p, r) ==
    ~ (  p.x + PLAYER_SIZE < r.x
      \/ p.x > r.x + r.w
      \/ p.y + PLAYER_SIZE < r.y
      \/ p.y > r.y + r.h )

topRect(ob) == [x |-> ob.x, y |-> 0, w |-> OBSTACLE_WIDTH, h |-> ob.gapTop]

bottomRect(ob) ==
    [x |-> ob.x, y |-> ob.gapTop + ob.gapHeight, w |-> OBSTACLE_WIDTH,
     h |-> GAME_HEIGHT - (ob.gapTop + ob.gapHeight)]

\* detectCollisions: true when the loop over the obstacles reaches stopGame
detectCollisions(p, list) ==
    \E i \in 1..Len(list) :
        rectIntersect(p, topRect(list[i])) \/ rectIntersect(p, bottomRect(list[i]))

\* the two clamps of updatePlayer
clampX(x) == Max(0, Min(GAME_WIDTH - PLAYER_SIZE, x))
clampY(y) == Max(0, Min(GAME_HEIGHT - PLAYER_SIZE, y))

\* updatePlayer with lines 179-190, its vertical clamps, left out
updatePlayerNoClampY(p, held, k) ==
    LET x1 == IF "ArrowLeft" \in held THEN p.x - HORIZ_SPEED ELSE p.x
        x2 == IF "ArrowRight" \in held THEN x1 + HORIZ_SPEED ELSE x1
        vy1 == p.vy + GRAVITY * Min(k, MAX_GRAVITY_STEP)
    IN  [x |-> clampX(x2), y |-> p.y + vy1 * k, vy |-> vy1]

\* updatePlayer(dt), dt = k ticks, held = keysRef.current
updatePlayer(p, held, k) ==
    LET x1 == IF "ArrowLeft" \in held THEN p.x - HORIZ_SPEED ELSE p.x
        x2 == IF "ArrowRight" \in held THEN x1 + HORIZ_SPEED ELSE x1
        x3 == clampX(x2)
        vy1 == p.vy + GRAVITY * Min(k, MAX_GRAVITY_STEP)
        y1 == p.y + vy1 * k
        y2 == clampY(y1)
        over == y2 + PLAYER_SIZE > GAME_HEIGHT
        y3 == IF over THEN GAME_HEIGHT - PLAYER_SIZE ELSE y2
        vy2 == IF over THEN 0 ELSE vy1
        under == y3 < 0
    IN  [x |-> x3, y |-> IF under THEN 0 ELSE y3, vy |-> IF under THEN 0 ELSE vy2]

\* the obstacle spawnObstacle pushes; rh, rt, rs are its draws of Math.random().
\* Its id, Date.now() + Math.random(), is the time of the spawning frame.
newObstacle(rh, rt, rs, ts) ==
    LET gapH == randomBetween(GAP_MIN, GAP_MAX, rh)
        gapTop == randomBetween(EDGE_PAD, (GAME_HEIGHT \div Scale) - gapH - EDGE_PAD, rt)
    IN  [x |-> GAME_WIDTH + SPAWN_MARGIN, gapTop |-> gapTop * Scale,
         gapHeight |-> gapH * Scale,
         speed |-> OBSTACLE_SPEED + (rs * SPEED_JITTER) \div RandDen,
         passed |-> FALSE, id |-> ts]

\* spawnObstacle without the shift of lines 157-159
spawnObstacleNoShift(list, ob) == Append(list, ob)

\* spawnObstacle: push, then shift when the list is longer than the cap
spawnObstacle(list, ob) ==
    LET pushed == Append(list, ob)
    IN  IF Len(pushed) > MAX_OBSTACLES THEN Tail(pushed) ELSE pushed

\* the scoring test without its "!ob.passed"
scoresAgain(ob, x, px) == x + OBSTACLE_WIDTH < px

\* the test of updateObstacles that scores an obstacle, on its moved x
scores(ob, x, px) == ~ob.passed /\ x + OBSTACLE_WIDTH < px

\* one obstacle after the body of the for loop of updateObstacles
moveObstacle(ob, k, px) ==
    LET x1 == ob.x - ob.speed * k
    IN  [ob EXCEPT !.x = x1, !.passed = ob.passed \/ scores(ob, x1, px)]

\* the for loop of updateObstacles counting one step's passes as one
scoreDeltaOnce(list, k, px) ==
    IF \E i \in 1..Len(list) : scores(list[i], list[i].x - list[i].speed * k, px)
    THEN 1 ELSE 0

\* how many obstacles the for loop of updateObstacles scores
RECURSIVE scoreDelta(_, _, _)
scoreDelta(list, k, px) ==
    IF list = << >> THEN 0
    ELSE (IF scores(Head(list), Head(list).x - Head(list).speed * k, px) THEN 1 ELSE 0)
         + scoreDelta(Tail(list), k, px)

onScreen(ob) == ob.x + OBSTACLE_WIDTH > OFFSCREEN

\* updateObstacles: the list after the moves and the filter
updateObstacles(list, k, px) ==
    SelectSeq([i \in 1..Len(list) |-> moveObstacle(list[i], k, px)], onScreen)

\* a cancelAnimationFrame that cancels nothing
cancelNothing(set, id) == set

\* cancelAnimationFrame(id) on the set of pending callbacks
cancelAnimationFrame(set, id) == {cb \in set : cb.id # id}

\* ------------------------------------------------------------- state
Phase == IF running THEN "Running" ELSE IF gameOver THEN "GameOver" ELSE "Idle"

\* the record of the operation op, taken in the current state
Did(op, gain) == [op |-> op, from |-> Phase, gain |-> gain,
                  streak |-> IF op = "start" THEN Min(last.streak + 1, 2) ELSE 0]

Init ==
    /\ running = FALSE
    /\ gameOver = FALSE
    /\ score = 0
    /\ storage \in [{BEST_KEY, STOP_KEY} -> StoredSet]
    /\ storage[STOP_KEY] = NULL
    /\ best = initialBest(storage[BEST_KEY])
    /\ player = initialPlayer
    /\ obstacles = << >>
    /\ keys = {}
    /\ lastSpawn = 0
    /\ lastTime = NULL
    /\ animationRef = NULL
    /\ pending = {}
    /\ handles = 0
    /\ now = 1
    /\ mounted = TRUE
    /\ keydowns = 0
    /\ last = [op |-> "init", from |-> "Idle", gain |-> 0, streak |-> 0]

\* resetGame without line 60
resetGameKeepsObstacles ==
    /\ player' = initialPlayer
    /\ obstacles' = obstacles
    /\ score' = 0
    /\ gameOver' = FALSE
    /\ lastSpawn' = 0

\* resetGame
resetGame ==
    /\ player' = initialPlayer
    /\ obstacles' = << >>
    /\ score' = 0
    /\ gameOver' = FALSE
    /\ lastSpawn' = 0

\* startGame without line 69
restartFramesNoCancel(set, ref, cb) == set \cup {cb}

\* what startGame leaves pending: it cancels the callback animationRef
\* names (line 69) and requests cb (line 73)
restartFrames(set, ref, cb) ==
    (IF ref # NULL THEN cancelAnimationFrame(set, ref) ELSE set) \cup {cb}

\* startGame; the callback it requests is the loop of the calling render,
\* which closes over that render's running, score and best
startGame ==
    /\ resetGame
    /\ running' = TRUE
    /\ lastTime' = NULL
    /\ handles' = handles + 1
    /\ animationRef' = handles + 1
    /\ pending' = restartFrames(pending, animationRef,
                                [id |-> handles + 1, running |-> running,
                                 score |-> score, best |-> best])
    /\ last' = Did("start", 0)

\* onStartClick, onRestartClick
StartClick ==
    /\ mounted
    /\ Effort(handles + 1, keydowns) <= MaxEffort
    /\ startGame
    /\ UNCHANGED <<best, keys, now, mounted, storage, keydowns>>

\* stopGame without the test of line 80
stopBestAlways(cb, cur) == cb.score

\* what stopGame(true) makes of best when the loop cb calls it: score and
\* best are the values of the render that created cb
stopBest(cb, cur) == IF cb.score > cb.best THEN cb.score ELSE cur

\* what stopGame makes of localStorage: line 82 calls getItem, which reads
stopStore(cb, store) == store

\* the test of line 98 without its "running"
jumpsAlways(code) == code \in {"Space", "ArrowUp"}

\* the test of line 98: this keydown makes the player jump
jumps(code) == running /\ code \in {"Space", "ArrowUp"}

\* onKeyDown
KeyDown(code) ==
    /\ mounted
    /\ Effort(handles, keydowns + 1) <= MaxEffort
    /\ keydowns' = keydowns + 1
    /\ keys' = keys \cup {code}
    /\ IF jumps(code)
       THEN /\ player' = [player EXCEPT !.vy = JUMP_VELOCITY, !.y = player.y - JUMP_LIFT]
            /\ last' = Did("keydown", 0)
            /\ UNCHANGED <<running, gameOver, score, obstacles, lastSpawn, lastTime,
                           animationRef, pending, handles>>
       ELSE IF ~running /\ gameOver /\ code = "Enter"
       THEN /\ Effort(handles + 1, keydowns) <= MaxEffort
            /\ startGame
       ELSE /\ last' = Did("keydown", 0)
            /\ UNCHANGED <<running, gameOver, score, player, obstacles, lastSpawn,
                           lastTime, animationRef, pending, handles>>
    /\ UNCHANGED <<best, now, mounted, storage>>

\* onKeyUp
KeyUp(code) ==
    /\ mounted
    /\ code \in keys
    /\ keys' = keys \ {code}
    /\ last' = Did("keyup", 0)
    /\ UNCHANGED <<running, gameOver, score, best, player, obstacles, lastSpawn,
                   lastTime, animationRef, pending, handles, now, mounted, storage,
                   keydowns>>

\* the loop spawning on every frame
spawnDueAlways(ts) == TRUE

\* the spawn test of line 128, at timestamp ts
spawnDue(ts) == (ts - lastSpawn) * FRAME_MS > OBSTACLE_INTERVAL \/ lastSpawn = 0

\* dt of lines 123-124, at timestamp ts
frameDt(ts) == ts - (IF lastTime = NULL \/ lastTime = 0 THEN ts ELSE lastTime)

\* loop(timestamp): the browser runs the pending callback cb, k ticks after
\* the clock's last reading
loop(cb, k, rh, rt, rs) ==
    LET ts == now + k
        dt == frameDt(ts)
        spawn == spawnDue(ts)
        list1 == IF spawn THEN spawnObstacle(obstacles, newObstacle(rh, rt, rs, ts))
                 ELSE obstacles
        p1 == updatePlayer(player, keys, dt)
        list2 == updateObstacles(list1, dt, p1.x)
        hit == detectCollisions(p1, list2)
        fired == pending \ {cb}
        left == IF hit /\ animationRef # NULL
                THEN cancelAnimationFrame(fired, animationRef) ELSE fired
    IN  /\ cb \in pending
        /\ cb.running => Effort(handles + 1, keydowns) <= MaxEffort
        /\ now' = ts
        /\ lastTime' = ts
        /\ lastSpawn' = IF spawn THEN ts ELSE lastSpawn
        /\ player' = p1
        /\ obstacles' = list2
        /\ score' = score + scoreDelta(list1, dt, p1.x)
        /\ running' = IF hit THEN FALSE ELSE running
        /\ gameOver' = IF hit THEN TRUE ELSE gameOver
        /\ best' = IF hit THEN stopBest(cb, best) ELSE best
        /\ storage' = IF hit THEN stopStore(cb, storage) ELSE storage
        /\ IF cb.running
           THEN /\ handles' = handles + 1
                /\ animationRef' = handles + 1
                /\ pending' = left \cup {[cb EXCEPT !.id = handles + 1]}
           ELSE /\ pending' = left
                /\ UNCHANGED <<handles, animationRef>>
        /\ last' = Did("frame", scoreDelta(list1, dt, p1.x))
        /\ UNCHANGED <<keys, mounted, keydowns>>

\* a frame of the browser: the draws of Math.random() are made only when
\* the loop spawns
Frame(cb, k) ==
    IF spawnDue(now + k)
    THEN \E d \in Draws : loop(cb, k, d[1], d[2], d[3])
    ELSE loop(cb, k, 0, 0, 0)

\* the cleanup of the effect of lines 264-268
Unmount ==
    /\ mounted
    /\ mounted' = FALSE
    /\ pending' = IF animationRef # NULL
                  THEN cancelAnimationFrame(pending, animationRef) ELSE pending
    /\ last' = Did("unmount", 0)
    /\ UNCHANGED <<running, gameOver, score, best, player, obstacles, keys,
                   lastSpawn, lastTime, animationRef, handles, now, storage,
                   keydowns>>

Next ==
    \/ StartClick
    \/ \E code \in Codes : KeyDown(code)
    \/ \E code \in Codes : KeyUp(code)
    \/ \E cb \in pending, k \in DtSet : Frame(cb, k)
    \/ Unmount

Spec == Init /\ [][Next]_vars

\* ------------------------------------------------- collision detection
\* detectCollisions and rectIntersect on their own: a running game whose
\* player and one obstacle are placed next to each other, overlapping, apart
\* and in contact along each edge, one fixed-point unit being the smallest
\* distance
Nudge == {0 - 1, 0, 1}

\* where the obstacle is placed: before the player, behind it, and over it
PlacedX ==
    {initialPlayer.x + PLAYER_SIZE + e : e \in Nudge}
        \cup {initialPlayer.x - OBSTACLE_WIDTH + e : e \in Nudge}
        \cup {initialPlayer.x}

\* where the player is placed: at the lower edge of the top barrier, at the
\* upper edge of the bottom barrier, and inside the gap
PlacedY(ob) ==
    {ob.gapTop + e : e \in Nudge}
        \cup {ob.gapTop + ob.gapHeight - PLAYER_SIZE + e : e \in Nudge}
        \cup {ob.gapTop + EDGE_PAD * Scale}

InitCollision ==
    /\ running = TRUE
    /\ gameOver = FALSE
    /\ score = 0
    /\ storage = [key \in {BEST_KEY, STOP_KEY} |-> NULL]
    /\ best = initialBest(storage[BEST_KEY])
    /\ \E d \in Draws, x \in PlacedX :
          LET ob == [newObstacle(d[1], d[2], d[3], 1) EXCEPT !.x = x]
          IN  /\ obstacles = <<ob>>
              /\ \E y \in PlacedY(ob) : player = [initialPlayer EXCEPT !.y = y]
    /\ keys = {}
    /\ lastSpawn = 1
    /\ lastTime = 1
    /\ animationRef = 1
    /\ pending = {}
    /\ handles = 1
    /\ now = 1
    /\ mounted = TRUE
    /\ keydowns = 0
    /\ last = [op |-> "placed", from |-> "Running", gain |-> 0, streak |-> 0]

\* detectCollisions() as the running loop calls it at line 135, and the
\* stopGame(true) it calls on a hit; the loop is the one of the first start,
\* which closes over score = 0 and best = 0
CollisionCheck ==
    LET cb == [id |-> animationRef, running |-> FALSE, score |-> 0, best |-> 0]
        hit == detectCollisions(player, obstacles)
    IN  /\ last.op = "placed"
        /\ running' = IF hit THEN FALSE ELSE running
        /\ gameOver' = IF hit THEN TRUE ELSE gameOver
        /\ best' = IF hit THEN stopBest(cb, best) ELSE best
        /\ storage' = IF hit THEN stopStore(cb, storage) ELSE storage
        /\ pending' = IF hit /\ animationRef # NULL
                      THEN cancelAnimationFrame(pending, animationRef) ELSE pending
        /\ last' = Did("detect", 0)
        /\ UNCHANGED <<score, player, obstacles, keys, lastSpawn, lastTime,
                       animationRef, handles, now, mounted, keydowns>>

SpecCollision == InitCollision /\ [][CollisionCheck]_vars

\* ------------------------------------------------------------- claims
InBounds(p) ==
    /\ 0 <= p.x /\ p.x <= GAME_WIDTH - PLAYER_SIZE
    /\ 0 <= p.y /\ p.y <= GAME_HEIGHT - PLAYER_SIZE

Unpassed(list) == {list[i].id : i \in {j \in 1..Len(list) : ~list[j].passed}}

C2_CollisionCommitsScore ==
    [][ (last'.op = "frame" /\ running /\ detectCollisions(player', obstacles'))
        => /\ ~running' /\ gameOver'
           /\ best' = IF score' > best THEN score' ELSE best ]_vars

\* C3: while the session is Running, every executed frame leaves the next
\* frame scheduled.
C3_FrameSchedulesNext ==
    (last.op = "frame" /\ running /\ mounted) => pending # {}

\* C4: a frame callback that runs while the session is Idle or GameOver
\* changes neither the player, nor the obstacles, nor the score.
C4_NoStepOutsideRunning ==
    [][ (last'.op = "frame" /\ ~running)
        => UNCHANGED <<player, obstacles, score>> ]_vars

\* C5: an obstacle is scored at most once: a step raises the score by no
\* more than the number of obstacles that were not passed before it (the one
\* it spawns included) and are no longer so after it, and an obstacle whose
\* passed flag is set keeps it as long as it is in the list.
C5_ScoredAtMostOnce ==
    [][ last'.op = "frame"
        => LET before == Unpassed(obstacles)
                           \cup (IF spawnDue(now') THEN {now'} ELSE {})
           IN  /\ score' - score
                    <= Cardinality(before) - Cardinality(before \cap Unpassed(obstacles'))
               /\ \A i \in 1..Len(obstacles), j \in 1..Len(obstacles') :
                     (obstacles[i].id = obstacles'[j].id /\ obstacles[i].passed)
                        => obstacles'[j].passed ]_vars

\* C5's case: a step has run over an obstacle that was passed before it,
\* and has left the score as it was
C5_Witness ==
    /\ last.op = "frame" /\ last.gain = 0
    /\ score >= 1
    /\ \E i \in 1..Len(obstacles) : obstacles[i].passed

\* C6: start() from Idle or GameOver leaves the session Running, the player
\* at its initial pose, no obstacles, score 0, the game-over flag cleared and
\* the spawn timer 0.
C6_StartResets ==
    (last.op = "start" /\ last.from \in {"Idle", "GameOver"})
    => /\ running /\ ~gameOver
       /\ player = initialPlayer
       /\ obstacles = << >>
       /\ score = 0
       /\ lastSpawn = 0

\* C6's case: a start that followed a game over
C6_Witness == last.op = "start" /\ last.from = "GameOver" /\ running

\* C7: best never becomes smaller.
C7_BestNeverDecreases == [][best' >= best]_vars

\* C7's case: a game over has raised best above the value read at startup
C7_Witness == gameOver /\ best > initialBest(storage[BEST_KEY])

\* C8: after every GameOver the value stored under the key best is read
\* from at startup equals best.
C8_StoredBestIsBest == gameOver => initialBest(storage[BEST_KEY]) = best

\* C9: the player lies inside the field in every reachable state.
C9_PlayerAlwaysInField == InBounds(player)

\* C10: a start that follows a start at once leaves the session as the first
\* left it (Running, score 0, no obstacles, initial pose, spawn timer 0) and
\* leaves exactly one frame callback pending.
C10_RestartIdempotent ==
    [][ (last.op = "start" /\ last'.op = "start")
        => /\ running' = running /\ gameOver' = gameOver
           /\ score' = score /\ obstacles' = obstacles /\ player' = player
           /\ lastSpawn' = lastSpawn /\ lastTime' = lastTime
           /\ running' /\ score' = 0 /\ obstacles' = << >>
           /\ player' = initialPlayer /\ lastSpawn' = 0
           /\ Cardinality(pending') = 1 ]_vars

\* C10's case: two starts in a row, the first of them after a game over
C10_Witness ==
    last.streak = 2 /\ last.from = "Running" /\ Cardinality(pending) = 1 /\ handles > 2

\* C11: a start() made while the session is Running leaves the player, the
\* obstacles, the score and the spawn timer as they were.
C11_RedundantStartNoOp ==
    [][ (last'.op = "start" /\ running)
        => UNCHANGED <<player, obstacles, score, lastSpawn>> ]_vars

\* the bounds of C12 on one obstacle
GapInRange(ob) ==
    /\ GAP_MIN * Scale <= ob.gapHeight /\ ob.gapHeight <= GAP_MAX * Scale
    /\ EDGE_PAD * Scale <= ob.gapTop
    /\ ob.gapTop <= GAME_HEIGHT - ob.gapHeight - EDGE_PAD * Scale
    /\ topRect(ob).h > 0
    /\ bottomRect(ob).h > 0

\* C12: every obstacle of the list has GAP_MIN <= gapHeight <= GAP_MAX and
\* 40 <= gapTop <= GAME_HEIGHT - gapHeight - 40, so both of its barriers have
\* a positive height; and spawnObstacle makes such an obstacle of every
\* value Math.random() can return for the gap.
C12_GapWithinBounds ==
    /\ \A i \in 1..Len(obstacles) : GapInRange(obstacles[i])
    /\ last.op = "init"
         => \A rh \in 0..(RandDen - 1), rt \in 0..(RandDen - 1) :
                GapInRange(newObstacle(rh, rt, 0, 1))

\* C12's case: the list holds an obstacle with the widest gap at the lowest
\* place and one with the narrowest gap at the highest place
C12_Witness ==
    /\ \E i \in 1..Len(obstacles) :
          /\ obstacles[i].gapHeight = GAP_MAX * Scale
          /\ obstacles[i].gapTop = GAME_HEIGHT - (GAP_MAX + EDGE_PAD) * Scale
    /\ \E i \in 1..Len(obstacles) :
          /\ obstacles[i].gapHeight = GAP_MIN * Scale
          /\ obstacles[i].gapTop = EDGE_PAD * Scale

\* the closed intervals [a1, a2] and [b1, b2] have a point in common
Meet(a1, a2, b1, b2) == Max(a1, b1) <= Min(a2, b2)

\* the closed rectangles of the player p and of r overlap on both axes
ClosedOverlap(p, r) ==
    /\ Meet(p.x, p.x + PLAYER_SIZE, r.x, r.x + r.w)
    /\ Meet(p.y, p.y + PLAYER_SIZE, r.y, r.y + r.h)

\* C13: rectIntersect is true exactly when the player's closed rectangle
\* and the barrier's overlap on both axes, contact along an edge included,
\* and the collision check ends the session exactly when the player
\* overlaps a barrier in that sense.
C13_ClosedRectangles ==
    /\ \A i \in 1..Len(obstacles) :
          /\ rectIntersect(player, topRect(obstacles[i]))
                <=> ClosedOverlap(player, topRect(obstacles[i]))
          /\ rectIntersect(player, bottomRect(obstacles[i]))
                <=> ClosedOverlap(player, bottomRect(obstacles[i]))
    /\ last.op = "detect"
         => /\ gameOver <=> \E i \in 1..Len(obstacles) :
                               \/ ClosedOverlap(player, topRect(obstacles[i]))
                               \/ ClosedOverlap(player, bottomRect(obstacles[i]))
            /\ running <=> ~gameOver

\* C13's case: the collision check has ended a session whose player, under
\* the top barrier and level with the obstacle, only touched that barrier's
\* lower edge
C13_Witness ==
    /\ last.op = "detect" /\ gameOver
    /\ player.x = obstacles[1].x
    /\ player.y = obstacles[1].gapTop

\* C14: a step whose motion takes the player past the floor or past the
\* ceiling, so that its y is clamped, leaves the player with vy = 0.
C14_ClampZeroesVelocity ==
    [][ last'.op = "frame"
        => LET k == frameDt(now')
               vy1 == player.vy + GRAVITY * Min(k, MAX_GRAVITY_STEP)
               free == player.y + vy1 * k
           IN  (free < 0 \/ free > GAME_HEIGHT - PLAYER_SIZE) => player'.vy = 0 ]_vars

\* the obstacle lists a frame at time ts may update: the list as it is, or
\* with the obstacle spawned from one of the draws
Stepped(ts) ==
    IF spawnDue(ts)
    THEN {spawnObstacle(obstacles, newObstacle(d[1], d[2], d[3], ts)) : d \in Draws}
    ELSE {obstacles}

C16_JumpOnlyWhileRunning ==
    [][ \A code \in {"Space", "ArrowUp"} :
          KeyDown(code)
          => IF running
             THEN player' = [x |-> player.x, y |-> player.y - 2 * Scale,
                             vy |-> JUMP_VELOCITY]
             ELSE player' = player ]_vars

\* C16's case: Space went down after the game was over, on a player that
\* was moving, and the player is still moving
C16_Witness ==
    /\ last.op = "keydown" /\ last.from = "GameOver"
    /\ keys = {"Space"}
    /\ player.vy # 0 /\ player.vy # JUMP_VELOCITY

\* C17: a keydown of a jump key that is already held (the key repeating
\* while it is down) gives the player no further impulse.
C17_JumpEdgeTriggered ==
    [][ \A code \in {"Space", "ArrowUp"} :
          (KeyDown(code) /\ code \in keys) => player' = player ]_vars

\* a list as long as the cap allows, in spawn order
FullList == [i \in 1..MAX_OBSTACLES |-> newObstacle(0, 0, 0, i)]

\* C18: the list never holds more than 10 obstacles and holds them in spawn
\* order; a spawn onto a list of 10 drops the head and keeps the others in
\* their order, the new obstacle last.
C18_AtMostTenObstacles ==
    /\ Len(obstacles) <= 10
    /\ \A i, j \in 1..Len(obstacles) : i < j => obstacles[i].id < obstacles[j].id
    /\ last.op = "init"
         => LET ob == newObstacle(0, 0, 0, MAX_OBSTACLES + 1)
            IN  /\ spawnObstacle(FullList, ob) = Append(Tail(FullList), ob)
                /\ Len(spawnObstacle(FullList, ob)) = 10

\* C18's case: a list of two, the second spawned onto the first, has been
\* stepped again and is still in spawn order
C18_Witness ==
    /\ last.op = "frame" /\ lastSpawn # now
    /\ Len(obstacles) = 2

\* the ids of the obstacles of a list
Ids(list) == {list[i].id : i \in 1..Len(list)}

\* C19: the first frame after a start spawns; a frame spawns at most one
\* obstacle, and only when no spawn was made since the start or its
\* timestamp exceeds the last spawn's by more than OBSTACLE_INTERVAL; a
\* spawn sets the spawn clock to the frame's timestamp and no other frame
\* changes it; the spawns of two neighbours in the list are more than
\* OBSTACLE_INTERVAL apart.
C19_SpawnTiming ==
    [][ last'.op = "frame"
        => LET new == Ids(obstacles') \ Ids(obstacles)
           IN  /\ Cardinality(new) <= 1
               /\ lastTime = NULL => new # {}
               /\ new # {} => /\ new = {now'}
                              /\ lastSpawn' = now'
                              /\ \/ lastSpawn = 0
                                 \/ (now' - lastSpawn) * FRAME_MS > OBSTACLE_INTERVAL
               /\ new = {} => lastSpawn' = lastSpawn
               /\ \A j \in 1..(Len(obstacles') - 1) :
                     (obstacles'[j + 1].id - obstacles'[j].id) * FRAME_MS
                        > OBSTACLE_INTERVAL ]_vars

\* C19's case: a frame has made the second spawn of a session
C19_Witness ==
    /\ last.op = "frame" /\ lastSpawn = now
    /\ Len(obstacles) = 2 /\ obstacles[2].id = now

\* C20: at most one frame callback of the loop is pending in every state.
C20_OnePendingFrame == Cardinality(pending) <= 1

\* C20's case: a frame that ran after the game was over has left exactly
\* one callback pending, the component being mounted or not
C20_Witness ==
    /\ last.op \in {"frame", "unmount"} /\ last.from = "GameOver"
    /\ handles > 3
    /\ Cardinality(pending) = 1

====
